---- MODULE Spec2Model ----
(***************************************************************************)
(* Wavelink Player (src/wavelink/player.py): one Player (session) of one   *)
(* guild, the nodes it can be assigned to, and the coroutines that act on  *)
(* it.  Every `await self.node._send(...)` is a suspension point: the      *)
(* command is handed to the node when the coroutine reaches the await, and *)
(* the coroutine resumes later, either normally or with the transport's    *)
(* exception.  A coroutine is a frame (op, pc, args, locals); the log of a *)
(* frame lists the commands that call has handed to nodes so far.          *)
(*                                                                         *)
(* Time: time.time() * 1000 is a float of milliseconds.  The clock `now`   *)
(* counts ticks of 1/Scale ms; positions and durations reported by a node  *)
(* are whole milliseconds, i.e. multiples of Scale ticks.                  *)
(***************************************************************************)
EXTENDS Integers, Sequences, FiniteSets, TLC

NumNodes == 2       \* nodes known to the client
Scale == 2          \* clock ticks per millisecond
EpochMs == 4        \* wall clock at construction (ms), beyond every finite duration
MaxTick == 1        \* ticks the clock may advance

Nodes == 1 .. NumNodes
Tasks == {1, 2}     \* coroutines that may be alive at once
SeqTasks == {1}     \* a caller that awaits each call before the next
None == -1          \* Python's None

Tracks == {1, 2}                          \* Track.id
Tokens == {1}                             \* data['session_id'] values
Events == {1}                             \* voice server update blobs
Channels == {None, 1}                     \* data['channel_id']: None when disconnecting
Volumes == {-5, 100, 1001}                \* set_volume inputs
Starts == {0, 1}                          \* play(start=...)
Ends == {0, 1}                            \* play(end=...)
SeekPositions == {1}                      \* seek(position=...)
ReportPositions == {1}                    \* state['position'] (ms)
ReportTimes == {EpochMs}                  \* state['time'] (ms)
EventTypes == {"TrackStart", "TrackEnd", "TrackException", "TrackStuck"}

VARIABLES node, players, available, voice_state, connected,
          last_update, last_position, position_timestamp,
          volume, paused, track, now, frames

vars == <<node, players, available, voice_state, connected,
          last_update, last_position, position_timestamp,
          volume, paused, track, now, frames>>

Min(a, b) == IF a < b THEN a ELSE b
Max(a, b) == IF a > b THEN a ELSE b

\* Track.duration (info['length'], whole ms) in clock ticks
Duration(t) == (2 * t - 1) * Scale

\* str(n): the decimal string of n, a value distinct from the integer n
Str(n) == <<"str", n>>

\* int(x) of a non-negative float of milliseconds: truncation to whole ms
int(x) == x \div Scale

\* a coroutine frame: the locals of change_node (old, target), and for the properties
\* the commands the call has sent (log), how it ended (result) and the value
\* self.position had when change_node was entered (entry_position)
IdleFrame == [op |-> "", pc |-> "idle", args |-> [none |-> None], old |-> None,
              target |-> None, log |-> <<>>, result |-> "", entry_position |-> None]

\* the frames once the calls that have returned are handed back
Retired == [t \in Tasks |-> IF frames[t].pc = "done" THEN IdleFrame ELSE frames[t]]

\* no call has returned without being handed back to its caller yet
Quiet == \A t \in Tasks : frames[t].pc # "done"

\* task t may enter a coroutine / is suspended inside one
Callable(t) == Quiet /\ frames[t].pc = "idle"
InFlight(t) == frames[t].pc \notin {"idle", "done"}
\* task t is suspended in the coroutine op at the await labelled pc
Suspended(t, op, pc) == Quiet /\ frames[t].op = op /\ frames[t].pc = pc

\* the coroutine of task t is suspended at `await ..._send(cmd)` (label pc)
Suspend(f, pc, cmd) == [f EXCEPT !.pc = pc, !.log = Append(@, cmd)]
\* the coroutine returns (result "ok") or raises (any other result)
Finish(f, result) == [f EXCEPT !.pc = "done", !.result = result]

NewFrame(op, args) == [IdleFrame EXCEPT !.op = op, !.pc = "run", !.args = args]

is_connected == connected
\* is_playing with the track test inverted
is_playing_inverted == is_connected /\ track = None

is_playing == is_connected /\ track # None
is_paused == paused

position ==
    IF ~is_playing THEN 0
    ELSE IF is_paused THEN Min(last_position, Duration(track))
    ELSE LET difference == now - last_update
             pos == last_position + difference
         IN IF pos > Duration(track) THEN 0 ELSE Min(pos, Duration(track))

Init ==
    /\ node \in Nodes
    /\ players = [n \in Nodes |-> n = node]
    /\ available = [n \in Nodes |-> TRUE]
    /\ voice_state = [sessionId |-> None, event |-> None]
    /\ connected = FALSE
    /\ last_update = None
    /\ last_position = None
    /\ position_timestamp = None
    /\ volume = 100
    /\ paused = FALSE
    /\ track = None
    /\ now = EpochMs * Scale
    /\ frames = [t \in Tasks |-> IdleFrame]

Tick ==
    /\ Quiet
    /\ now < EpochMs * Scale + MaxTick
    /\ now' = now + 1
    /\ UNCHANGED <<frames, node, players, available, voice_state, connected, last_update,
                   last_position, position_timestamp, volume, paused, track>>

\* the play payload with noReplace carrying replace itself
PlayPayload_inverted(t, replace, start, end) ==
    IF end > 0
    THEN [op |-> "play", node |-> node, track |-> t, noReplace |-> replace,
          startTime |-> Str(start), endTime |-> Str(end)]
    ELSE [op |-> "play", node |-> node, track |-> t, noReplace |-> replace,
          startTime |-> Str(start)]

PlayPayload(t, replace, start, end) ==
    LET payload == [op |-> "play", node |-> node, track |-> t,
                    noReplace |-> ~replace, startTime |-> Str(start)]
    IN IF end > 0
       THEN [op |-> "play", node |-> node, track |-> t, noReplace |-> ~replace,
             startTime |-> Str(start), endTime |-> Str(end)]
       ELSE payload

play(task, t, replace, start, end) ==
    LET f == NewFrame("play", [track |-> t, replace |-> replace, start |-> start, end |-> end])
    IN /\ Callable(task)
       /\ IF replace \/ ~is_playing
          THEN /\ last_update' = 0
               /\ last_position' = 0
               /\ position_timestamp' = 0
               /\ paused' = FALSE
               /\ track' = t
               /\ frames' = [frames EXCEPT ![task] =
                                Suspend(f, "send", PlayPayload(t, replace, start, end))]
          ELSE /\ frames' = [frames EXCEPT ![task] = Finish(f, "ok")]
               /\ UNCHANGED <<last_update, last_position, position_timestamp, paused, track>>
       /\ UNCHANGED <<node, players, available, voice_state, connected, volume, now>>

\* the awaited send of a coroutine whose remaining code only logs
SendOutcomes == {"ok", "SendError"}

play_resume(task, outcome) ==
    /\ Suspended(task, "play", "send")
    /\ frames' = [frames EXCEPT ![task] = Finish(frames[task], outcome)]
    /\ UNCHANGED <<node, players, available, voice_state, connected, last_update,
                   last_position, position_timestamp, volume, paused, track, now>>

stop(task) ==
    /\ Callable(task)
    /\ frames' = [frames EXCEPT ![task] =
                     Suspend(NewFrame("stop", [none |-> None]), "send",
                             [op |-> "stop", node |-> node])]
    /\ UNCHANGED <<node, players, available, voice_state, connected, last_update,
                   last_position, position_timestamp, volume, paused, track, now>>

stop_resume(task, outcome) ==
    /\ Suspended(task, "stop", "send")
    /\ track' = IF outcome = "ok" THEN None ELSE track
    /\ frames' = [frames EXCEPT ![task] = Finish(frames[task], outcome)]
    /\ UNCHANGED <<node, players, available, voice_state, connected, last_update,
                   last_position, position_timestamp, volume, paused, now>>

set_pause(task, pause) ==
    /\ Callable(task)
    /\ frames' = [frames EXCEPT ![task] =
                     Suspend(NewFrame("set_pause", [pause |-> pause]), "send",
                             [op |-> "pause", node |-> node, pause |-> pause])]
    /\ UNCHANGED <<node, players, available, voice_state, connected, last_update,
                   last_position, position_timestamp, volume, paused, track, now>>

\* a set_pause that records the flag even when its send raised
set_pause_resume_always(task, outcome) ==
    /\ Suspended(task, "set_pause", "send")
    /\ paused' = frames[task].args.pause
    /\ frames' = [frames EXCEPT ![task] = Finish(frames[task], outcome)]
    /\ UNCHANGED <<node, players, available, voice_state, connected, last_update,
                   last_position, position_timestamp, volume, track, now>>

set_pause_resume(task, outcome) ==
    /\ Suspended(task, "set_pause", "send")
    /\ paused' = IF outcome = "ok" THEN frames[task].args.pause ELSE paused
    /\ frames' = [frames EXCEPT ![task] = Finish(frames[task], outcome)]
    /\ UNCHANGED <<node, players, available, voice_state, connected, last_update,
                   last_position, position_timestamp, volume, track, now>>

\* the clamp without its upper bound
clamp_volume_unbounded(v) == Max(v, 0)

clamp_volume(v) == Max(Min(v, 1000), 0)

set_volume(task, v) ==
    /\ Callable(task)
    /\ volume' = clamp_volume(v)
    /\ frames' = [frames EXCEPT ![task] =
                     Suspend(NewFrame("set_volume", [volume |-> v]), "send",
                             [op |-> "volume", node |-> node, volume |-> volume'])]
    /\ UNCHANGED <<node, players, available, voice_state, connected, last_update,
                   last_position, position_timestamp, paused, track, now>>

set_volume_resume(task, outcome) ==
    /\ Suspended(task, "set_volume", "send")
    /\ frames' = [frames EXCEPT ![task] = Finish(frames[task], outcome)]
    /\ UNCHANGED <<node, players, available, voice_state, connected, last_update,
                   last_position, position_timestamp, volume, paused, track, now>>

seek(task, pos) ==
    /\ Callable(task)
    /\ frames' = [frames EXCEPT ![task] =
                     Suspend(NewFrame("seek", [position |-> pos]), "send",
                             [op |-> "seek", node |-> node, position |-> pos])]
    /\ UNCHANGED <<node, players, available, voice_state, connected, last_update,
                   last_position, position_timestamp, volume, paused, track, now>>

seek_resume(task, outcome) ==
    /\ Suspended(task, "seek", "send")
    /\ frames' = [frames EXCEPT ![task] = Finish(frames[task], outcome)]
    /\ UNCHANGED <<node, players, available, voice_state, connected, last_update,
                   last_position, position_timestamp, volume, paused, track, now>>

\* connect / disconnect await the gateway's voice_state, then flip _connected
connect(task) ==
    /\ Callable(task)
    /\ frames' = [frames EXCEPT ![task] =
                     [NewFrame("connect", [none |-> None]) EXCEPT !.pc = "gateway"]]
    /\ UNCHANGED <<node, players, available, voice_state, connected, last_update,
                   last_position, position_timestamp, volume, paused, track, now>>

connect_resume(task, outcome) ==
    /\ Suspended(task, "connect", "gateway")
    /\ connected' = IF outcome = "ok" THEN TRUE ELSE connected
    /\ frames' = [frames EXCEPT ![task] = Finish(frames[task], outcome)]
    /\ UNCHANGED <<node, players, available, voice_state, last_update,
                   last_position, position_timestamp, volume, paused, track, now>>

disconnect(task) ==
    /\ Callable(task)
    /\ frames' = [frames EXCEPT ![task] =
                     [NewFrame("disconnect", [none |-> None]) EXCEPT !.pc = "gateway"]]
    /\ UNCHANGED <<node, players, available, voice_state, connected, last_update,
                   last_position, position_timestamp, volume, paused, track, now>>

disconnect_resume(task, outcome) ==
    /\ Suspended(task, "disconnect", "gateway")
    /\ connected' = IF outcome = "ok" THEN FALSE ELSE connected
    /\ frames' = [frames EXCEPT ![task] = Finish(frames[task], outcome)]
    /\ UNCHANGED <<node, players, available, voice_state, last_update,
                   last_position, position_timestamp, volume, paused, track, now>>

update_state(task, pos, tm) ==
    /\ Callable(task)
    /\ last_update' = now
    /\ last_position' = pos * Scale
    /\ position_timestamp' = tm * Scale
    /\ frames' = [frames EXCEPT ![task] =
                     Finish(NewFrame("update_state", [position |-> pos, time |-> tm]), "ok")]
    /\ UNCHANGED <<node, players, available, voice_state, connected,
                   volume, paused, track, now>>

hook(task, event) ==
    /\ Callable(task)
    /\ track' = IF event.type \in {"TrackEnd", "TrackException", "TrackStuck"}
                THEN None ELSE track
    /\ frames' = [frames EXCEPT ![task] = Finish(NewFrame("hook", event), "ok")]
    /\ UNCHANGED <<node, players, available, voice_state, connected, last_update,
                   last_position, position_timestamp, volume, paused, now>>

\* keys of the _voice_state dict
VoiceKeys(vs) == {k \in {"sessionId", "event"} : vs[k] # None}

VoiceUpdatePayload(nd, vs) ==
    [op |-> "voiceUpdate", node |-> nd, sessionId |-> vs.sessionId, event |-> vs.event]

\* a dispatch that sends as soon as either fragment is stored
dispatch_voice_update_anykey(f, nd, vs) ==
    IF VoiceKeys(vs) # {}
    THEN Suspend(f, "send", VoiceUpdatePayload(nd, vs))
    ELSE Finish(f, "ok")

\* _dispatch_voice_update, entered from frame f with the dict vs: the frame after it
\* reached the send (suspended) or fell through (returned)
dispatch_voice_update(f, nd, vs) ==
    IF VoiceKeys(vs) = {"sessionId", "event"}
    THEN Suspend(f, "send", VoiceUpdatePayload(nd, vs))
    ELSE Finish(f, "ok")

on_voice_server_update(task, data) ==
    LET vs == [voice_state EXCEPT !.event = data]
    IN /\ Callable(task)
       /\ voice_state' = vs
       /\ frames' = [frames EXCEPT ![task] =
                        dispatch_voice_update(
                            NewFrame("on_voice_server_update", [data |-> data]), node, vs)]
       /\ UNCHANGED <<node, players, available, connected, last_update, last_position,
                      position_timestamp, volume, paused, track, now>>

on_voice_state_update(task, session_id, channel_id) ==
    LET vs == [voice_state EXCEPT !.sessionId = session_id]
        f == NewFrame("on_voice_state_update",
                      [session_id |-> session_id, channel_id |-> channel_id])
    IN /\ Callable(task)
       /\ IF channel_id = None
          THEN /\ voice_state' = [sessionId |-> None, event |-> None]
               /\ frames' = [frames EXCEPT ![task] = Finish(f, "ok")]
          ELSE /\ voice_state' = vs
               /\ frames' = [frames EXCEPT ![task] = dispatch_voice_update(f, node, vs)]
       /\ UNCHANGED <<node, players, available, connected, last_update, last_position,
                      position_timestamp, volume, paused, track, now>>

voice_update_resume(task, outcome) ==
    /\ \/ Suspended(task, "on_voice_server_update", "send")
       \/ Suspended(task, "on_voice_state_update", "send")
    /\ frames' = [frames EXCEPT ![task] = Finish(frames[task], outcome)]
    /\ UNCHANGED <<node, players, available, voice_state, connected, last_update,
                   last_position, position_timestamp, volume, paused, track, now>>

\* client.get_best_node(region=, shard_id=): some available node with matching tags,
\* or None
get_best_node(avail) == {n \in Nodes : avail[n]} \cup {None}

\* a registry removal that leaves the entry in place
registry_remove_skipped(ps, nd) == ps

\* del node.players[guild.id] / node.players[guild.id] = self
registry_remove(ps, nd) == [ps EXCEPT ![nd] = FALSE]
registry_insert(ps, nd) == [ps EXCEPT ![nd] = TRUE]

\* the opening checks without the comparison of the target with the current node
change_node_reject_unchecked(n, best) ==
    IF n # None THEN "" ELSE (IF best = None THEN "NoNodesAvailable" ELSE "")

\* the checks that open change_node: the exception raised, or "" to go on with `best`
change_node_reject(n, best) ==
    IF n # None
    THEN (IF n = node THEN "AlreadyOnNode" ELSE "")
    ELSE (IF best = None THEN "NoNodesAvailable" ELSE "")

\* the replayed play command starting at the last reported position
change_node_play_payload_stale(nd) ==
    [op |-> "play", node |-> nd, track |-> track, startTime |-> int(last_position)]

\* the play command change_node replays on the node nd
change_node_play_payload(nd) ==
    [op |-> "play", node |-> nd, track |-> track, startTime |-> int(position)]

\* a change_node that replays the voice handshake as soon as one fragment is stored
change_node_continue_anykey(f, stage, nd) ==
    IF /\ stage = "voice"
       /\ VoiceKeys(voice_state) # {}
    THEN Suspend(f, "voiceUpdate", VoiceUpdatePayload(nd, voice_state))
    ELSE IF stage \in {"voice", "track"} /\ track # None
    THEN Suspend(f, "play", change_node_play_payload(nd))
    ELSE IF stage = "pause" /\ is_paused
    THEN Suspend(f, "pause", [op |-> "pause", node |-> nd, pause |-> paused])
    ELSE IF volume # 100
    THEN Suspend(f, "volume", [op |-> "volume", node |-> nd, volume |-> volume])
    ELSE Finish(f, "ok")

\* a change_node that does not replay the pause
change_node_continue_nopause(f, stage, nd) ==
    IF /\ stage = "voice"
       /\ VoiceKeys(voice_state) # {}
       /\ VoiceKeys(voice_state) = {"sessionId", "event"}
    THEN Suspend(f, "voiceUpdate", VoiceUpdatePayload(nd, voice_state))
    ELSE IF stage \in {"voice", "track"} /\ track # None
    THEN Suspend(f, "play", change_node_play_payload(nd))
    ELSE IF volume # 100 /\ stage # "volume"
    THEN Suspend(f, "volume", [op |-> "volume", node |-> nd, volume |-> volume])
    ELSE Finish(f, "ok")

\* change_node from the code point `stage` on, with self.node = nd: the frame at the
\* next awaited send, or returned
change_node_continue(f, stage, nd) ==
    IF /\ stage = "voice"
       /\ VoiceKeys(voice_state) # {}
       /\ VoiceKeys(voice_state) = {"sessionId", "event"}
    THEN Suspend(f, "voiceUpdate", VoiceUpdatePayload(nd, voice_state))
    ELSE IF stage \in {"voice", "track"} /\ track # None
    THEN Suspend(f, "play", change_node_play_payload(nd))
    ELSE IF stage = "pause" /\ is_paused
    THEN Suspend(f, "pause", [op |-> "pause", node |-> nd, pause |-> paused])
    ELSE IF volume # 100
    THEN Suspend(f, "volume", [op |-> "volume", node |-> nd, volume |-> volume])
    ELSE Finish(f, "ok")

change_node(task, n) ==
    LET f == [NewFrame("change_node", [node |-> n]) EXCEPT !.entry_position = position]
        closed == [available EXCEPT ![node] = FALSE]
    IN /\ Callable(task)
       /\ \E best \in (IF n # None THEN {n} ELSE get_best_node(closed)) :
             /\ available' = IF n # None THEN available ELSE [closed EXCEPT ![node] = TRUE]
             /\ IF change_node_reject(n, best) # ""
                THEN /\ frames' = [frames EXCEPT ![task] =
                                      Finish(f, change_node_reject(n, best))]
                     /\ UNCHANGED players
                ELSE IF ~players[node]
                THEN /\ frames' = [frames EXCEPT ![task] = Finish(f, "KeyError")]
                     /\ UNCHANGED players
                ELSE /\ players' = registry_remove(players, node)
                     /\ frames' = [frames EXCEPT ![task] =
                                      Suspend([f EXCEPT !.old = node, !.target = best],
                                              "destroy", [op |-> "destroy", node |-> node])]
       /\ UNCHANGED <<node, voice_state, connected, last_update, last_position,
                      position_timestamp, volume, paused, track, now>>

change_node_resume(task, outcome) ==
    LET f == frames[task]
    IN /\ \E pc \in {"destroy", "voiceUpdate", "play", "pause", "volume"} :
             Suspended(task, "change_node", pc)
       /\ IF outcome # "ok"
          THEN /\ frames' = [frames EXCEPT ![task] = Finish(f, outcome)]
               /\ UNCHANGED <<node, players, last_update>>
          ELSE IF f.pc = "destroy"
          THEN /\ node' = f.target
               /\ players' = registry_insert(players, f.target)
               /\ frames' = [frames EXCEPT ![task] = change_node_continue(f, "voice", f.target)]
               /\ UNCHANGED last_update
          ELSE IF f.pc = "voiceUpdate"
          THEN /\ frames' = [frames EXCEPT ![task] = change_node_continue(f, "track", node)]
               /\ UNCHANGED <<node, players, last_update>>
          ELSE IF f.pc = "play"
          THEN /\ last_update' = now
               /\ frames' = [frames EXCEPT ![task] = change_node_continue(f, "pause", node)]
               /\ UNCHANGED <<node, players>>
          ELSE IF f.pc = "pause"
          THEN /\ frames' = [frames EXCEPT ![task] = change_node_continue(f, "volume", node)]
               /\ UNCHANGED <<node, players, last_update>>
          ELSE /\ frames' = [frames EXCEPT ![task] = Finish(f, "ok")]
               /\ UNCHANGED <<node, players, last_update>>
       /\ UNCHANGED <<available, voice_state, connected, last_position,
                      position_timestamp, volume, paused, track, now>>

\* a call that has returned or raised is handed back to its caller
Return ==
    /\ ~Quiet
    /\ frames' = Retired
    /\ UNCHANGED <<node, players, available, voice_state, connected, last_update,
                   last_position, position_timestamp, volume, paused, track, now>>

\* one caller that awaits every call, and callbacks delivered between calls
Next ==
    \/ Tick
    \/ \E task \in SeqTasks, t \in Tracks, replace \in BOOLEAN, start \in Starts, end \in Ends :
          play(task, t, replace, start, end)
    \/ \E task \in SeqTasks : stop(task)
    \/ \E task \in SeqTasks, pause \in BOOLEAN : set_pause(task, pause)
    \/ \E task \in SeqTasks, v \in Volumes : set_volume(task, v)
    \/ \E task \in SeqTasks, pos \in SeekPositions : seek(task, pos)
    \/ \E task \in SeqTasks : connect(task)
    \/ \E task \in SeqTasks : disconnect(task)
    \/ \E task \in SeqTasks, pos \in ReportPositions, tm \in ReportTimes :
          update_state(task, pos, tm)
    \/ \E task \in SeqTasks, ty \in EventTypes, t \in Tracks :
          hook(task, [type |-> ty, track |-> t])
    \/ \E task \in SeqTasks, data \in Events : on_voice_server_update(task, data)
    \/ \E task \in SeqTasks, sid \in Tokens, ch \in Channels :
          on_voice_state_update(task, sid, ch)
    \/ \E task \in SeqTasks, n \in Nodes \cup {None} : change_node(task, n)
    \/ \E task \in SeqTasks, outcome \in SendOutcomes : play_resume(task, outcome)
    \/ \E task \in SeqTasks, outcome \in SendOutcomes : stop_resume(task, outcome)
    \/ \E task \in SeqTasks, outcome \in SendOutcomes : set_pause_resume(task, outcome)
    \/ \E task \in SeqTasks, outcome \in SendOutcomes : set_volume_resume(task, outcome)
    \/ \E task \in SeqTasks, outcome \in SendOutcomes : seek_resume(task, outcome)
    \/ \E task \in SeqTasks, outcome \in SendOutcomes : connect_resume(task, outcome)
    \/ \E task \in SeqTasks, outcome \in SendOutcomes : disconnect_resume(task, outcome)
    \/ \E task \in SeqTasks, outcome \in SendOutcomes : voice_update_resume(task, outcome)
    \/ \E task \in SeqTasks, outcome \in SendOutcomes : change_node_resume(task, outcome)
    \/ Return

Spec == Init /\ [][Next]_vars

\* a failover of task 1 with playback commands of task 2 started while it is suspended
\* (the session has no lock: nothing defers a call made during another's await)
NextConc ==
    \/ Tick
    \/ \E n \in Nodes \cup {None} : change_node(1, n)
    \/ \E outcome \in SendOutcomes : change_node_resume(1, outcome)
    \/ \E t \in Tracks, replace \in BOOLEAN, start \in Starts, end \in Ends :
          play(2, t, replace, start, end)
    \/ \E outcome \in SendOutcomes : play_resume(2, outcome)
    \/ \E pause \in BOOLEAN : set_pause(2, pause)
    \/ \E outcome \in SendOutcomes : set_pause_resume(2, outcome)
    \/ stop(2)
    \/ \E outcome \in SendOutcomes : stop_resume(2, outcome)
    \/ connect(2)
    \/ \E outcome \in SendOutcomes : connect_resume(2, outcome)
    \/ Return

SpecConc == Init /\ [][NextConc]_vars

\* the values the gateway hands to the two voice callbacks over a session's life: a
\* session id or a voice server event can be delivered again, or be replaced
VoiceTokens == {1, 2}
VoiceEvents == {1, 2}

\* the voice handshake alone: the two gateway callbacks on a session that stays on
\* its node
NextVoice ==
    \/ Tick
    \/ \E task \in SeqTasks, data \in VoiceEvents : on_voice_server_update(task, data)
    \/ \E task \in SeqTasks, sid \in VoiceTokens, ch \in Channels :
          on_voice_state_update(task, sid, ch)
    \/ \E task \in SeqTasks, outcome \in SendOutcomes : voice_update_resume(task, outcome)
    \/ Return

SpecVoice == Init /\ [][NextVoice]_vars

\* a session that is connected, then plays one track from its start; the clock
\* advances only once play has returned, and the only later call is set_pause(True)
NextPlayFromStart ==
    \/ \E task \in SeqTasks : ~connected /\ connect(task)
    \/ \E task \in SeqTasks, outcome \in SendOutcomes : connect_resume(task, outcome)
    \/ \E task \in SeqTasks, t \in Tracks, replace \in BOOLEAN, end \in Ends :
          connected /\ track = None /\ play(task, t, replace, 0, end)
    \/ \E task \in SeqTasks, outcome \in SendOutcomes : play_resume(task, outcome)
    \/ track # None /\ Tick
    \/ \E task \in SeqTasks : track # None /\ set_pause(task, TRUE)
    \/ \E task \in SeqTasks, outcome \in SendOutcomes : set_pause_resume(task, outcome)
    \/ Return

SpecPlayFromStart == Init /\ [][NextPlayFromStart]_vars

\* tracks that outlast the modelled clock: the position interpolated from a state
\* report never passes their end
LongTracks ==
    {t \in Tracks : \A pos \in ReportPositions : pos * Scale + MaxTick <= Duration(t)}

\* playback of a long track on a connected session: state reports from the node,
\* pausing and resuming, and the passing of time
NextPlayback ==
    \/ Tick
    \/ \E task \in SeqTasks : ~connected /\ connect(task)
    \/ \E task \in SeqTasks, outcome \in SendOutcomes : connect_resume(task, outcome)
    \/ \E task \in SeqTasks, t \in LongTracks, replace \in BOOLEAN, start \in Starts :
          connected /\ play(task, t, replace, start, 0)
    \/ \E task \in SeqTasks, outcome \in SendOutcomes : play_resume(task, outcome)
    \/ \E task \in SeqTasks, pos \in ReportPositions, tm \in ReportTimes :
          update_state(task, pos, tm)
    \/ \E task \in SeqTasks, pause \in BOOLEAN : set_pause(task, pause)
    \/ \E task \in SeqTasks, outcome \in SendOutcomes : set_pause_resume(task, outcome)
    \/ Return

SpecPlayback == Init /\ [][NextPlayback]_vars

(***************************************************************************)
(* Properties                                                              *)
(***************************************************************************)
Returned(t, op) == frames[t].pc = "done" /\ frames[t].op = op
ReturnedOk(t, op) == Returned(t, op) /\ frames[t].result = "ok"
\* the step in which task t enters the coroutine op
Calls(t, op) == Callable(t) /\ frames'[t].op = op
Registered == {n \in Nodes : players[n]}
Ops(log) == [i \in 1 .. Len(log) |-> log[i].op]
Count(log, op) == Cardinality({i \in 1 .. Len(log) : log[i].op = op})

\* C1: in every reachable state, a change_node suspended at an awaited send included,
\* the session is in the player registry of exactly one node
C1_ExactlyOneRegistry == Cardinality(Registered) = 1

\* C2: while a change_node is in progress (its destroy has been issued), no play or
\* set_pause call hands a command to the node that change_node is abandoning
C2_NoCommandToAbandonedNode ==
    [][\A t1 \in Tasks, t2 \in Tasks :
          (/\ t1 # t2
           /\ frames[t1].op = "change_node" /\ InFlight(t1)
           /\ Calls(t2, "play") \/ Calls(t2, "set_pause")
           /\ frames'[t2].pc = "send")
          => frames'[t2].log[1].node # frames[t1].old]_vars

\* C3: when the destroy sent to the old node fails, change_node does not raise: it goes
\* on, the session's node becomes the new node and the session is registered there
C3_DestroyFailureNotFatal ==
    [][\A t \in Tasks :
          (/\ frames[t].op = "change_node" /\ frames[t].pc = "destroy"
           /\ frames'[t] # frames[t])
          => /\ ~(frames'[t].pc = "done" /\ frames'[t].result # "ok")
             /\ node' = frames[t].target
             /\ players'[frames[t].target]]_vars

\* C4: after a change_node that returns successfully the new node's registry holds the
\* session, the old node's does not, and the session's node is the new node, which
\* differs from the old one
C4_ChangeNodePost ==
    \A t \in Tasks :
        ReturnedOk(t, "change_node")
        => /\ players[frames[t].target]
           /\ ~players[frames[t].old]
           /\ node = frames[t].target
           /\ frames[t].target # frames[t].old
           /\ Registered = {frames[t].target}

C4_Witness ==
    \E t \in Tasks : ReturnedOk(t, "change_node") /\ frames[t].args.node = None
                     /\ players[node] /\ track # None

\* the replay part shared by the two readings of C5: in a successful change_node with a
\* track, one play for that track goes to the new node, followed by a pause iff the
\* session is paused; with no track neither is sent
C5_Replay(f, trk, psd) ==
    LET cmds == SelectSeq(f.log, LAMBDA c : c.op \in {"play", "pause"})
    IN IF trk = None
       THEN cmds = <<>>
       ELSE /\ Len(cmds) = IF psd THEN 2 ELSE 1
            /\ cmds[1].op = "play" /\ cmds[1].track = trk /\ cmds[1].node = f.target
            /\ psd => cmds[2] = [op |-> "pause", node |-> f.target, pause |-> TRUE]

\* C5 as claimed: the replayed play carries startTime equal to the session's position
\* at the moment it is sent
C5_StartTimeIsPosition ==
    [][\A t \in Tasks :
          /\ (frames'[t].op = "change_node" /\ frames'[t].pc = "play" /\ frames[t].pc # "play")
             => frames'[t].log[Len(frames'[t].log)].startTime * Scale = position
          /\ (frames'[t].op = "change_node" /\ frames'[t].pc = "done"
              /\ frames'[t].result = "ok" /\ frames[t].pc # "done")
             => C5_Replay(frames'[t], track', paused')]_vars

\* C5 (amended): the replayed play carries startTime equal to the session's position at
\* the moment it is sent truncated to whole milliseconds; the rest as claimed
C5_StartTimeIsTruncatedPosition ==
    [][\A t \in Tasks :
          /\ (frames'[t].op = "change_node" /\ frames'[t].pc = "play" /\ frames[t].pc # "play")
             => LET st == frames'[t].log[Len(frames'[t].log)].startTime
                IN st * Scale <= position /\ position < (st + 1) * Scale
          /\ (frames'[t].op = "change_node" /\ frames'[t].pc = "done"
              /\ frames'[t].result = "ok" /\ frames[t].pc # "done")
             => C5_Replay(frames'[t], track', paused')]_vars

C5_Witness ==
    \E t \in Tasks :
        /\ ReturnedOk(t, "change_node") /\ track # None /\ paused /\ connected
        /\ \E i \in 1 .. Len(frames[t].log) :
              frames[t].log[i].op = "play" /\ frames[t].log[i].startTime > 0

\* C6: for a connected, unpaused session with a track, the position read right after a
\* successful change_node is not less than the position read right before the call:
\* the position is not rewound to the last reported position or to zero
C6_NoRewind ==
    \A t \in Tasks :
        (ReturnedOk(t, "change_node") /\ connected /\ ~paused /\ track # None)
        => position >= frames[t].entry_position

\* C7: a change_node whose explicit target is the current node is rejected, and a
\* rejected change_node (same node, or no node from the selector) leaves node, the
\* registries, track, paused, volume and the handshake fragments as they were and
\* sends nothing
C7_RejectedChangeNode ==
    [][\A t \in Tasks :
          Calls(t, "change_node")
          => /\ frames'[t].args.node = node
                => frames'[t].pc = "done" /\ frames'[t].result = "AlreadyOnNode"
             /\ (frames'[t].pc = "done"
                 /\ frames'[t].result \in {"AlreadyOnNode", "NoNodesAvailable"})
                => /\ UNCHANGED <<node, players, track, paused, volume, voice_state>>
                   /\ frames'[t].log = <<>>]_vars

C7_Witness ==
    \E t \in Tasks : /\ Returned(t, "change_node")
                     /\ frames[t].result = "NoNodesAvailable"
                     /\ players[node] /\ track # None /\ volume # 100

\* C8: after set_volume(v) the stored volume is v clamped to [0, 1000] and the volume
\* command carries that value; the stored volume is always within [0, 1000]
C8_VolumeClamped ==
    /\ volume \in 0 .. 1000
    /\ \A t \in Tasks :
          (frames[t].op = "set_volume" /\ frames[t].pc \in {"send", "done"})
          => LET v == frames[t].args.volume
                 clamped == IF v < 0 THEN 0 ELSE IF v > 1000 THEN 1000 ELSE v
             IN /\ volume = clamped
                /\ frames[t].log = <<[op |-> "volume", node |-> node, volume |-> clamped]>>

C8_Witness ==
    \E t \in Tasks : ReturnedOk(t, "set_volume") /\ frames[t].args.volume > 1000
                     /\ volume = 1000

\* C9: play(t, replace=False) on a connected session with a track is a no-op: nothing
\* is sent and track, paused and the three timing fields stay as they were
C9_PlayNoReplaceNoop ==
    [][\A t \in Tasks :
          (/\ Calls(t, "play") /\ ~frames'[t].args.replace
           /\ connected /\ track # None)
          => /\ frames'[t].pc = "done" /\ frames'[t].result = "ok"
             /\ frames'[t].log = <<>>
             /\ UNCHANGED <<track, paused, last_update, last_position,
                            position_timestamp>>]_vars

C9_Witness ==
    \E t \in Tasks : /\ ReturnedOk(t, "play") /\ ~frames[t].args.replace
                     /\ frames[t].log = <<>>
                     /\ connected /\ track # None /\ track # frames[t].args.track
                     /\ paused /\ last_update > 0

\* C10: play(t, replace=True) sends exactly one play command, carrying t's id and
\* noReplace = false, to the current node; on return the three timing fields are 0,
\* paused is false and track is t
C10_PlayReplace ==
    \A t \in Tasks :
        (frames[t].op = "play" /\ frames[t].args.replace /\ frames[t].pc \in {"send", "done"})
        => /\ Len(frames[t].log) = 1
           /\ frames[t].log[1].op = "play"
           /\ frames[t].log[1].track = frames[t].args.track
           /\ frames[t].log[1].noReplace = FALSE
           /\ frames[t].log[1].node = node
           /\ ReturnedOk(t, "play")
              => /\ last_update = 0 /\ last_position = 0 /\ position_timestamp = 0
                 /\ paused = FALSE
                 /\ track = frames[t].args.track

C10_Witness ==
    \E t \in Tasks : /\ ReturnedOk(t, "play") /\ frames[t].args.replace
                     /\ connected /\ frames[t].args.end > 0
                     /\ Len(frames[t].log) = 1

BothFragments(vs) == vs.sessionId # None /\ vs.event # None

\* C11: a voiceUpdate is sent only when both handshake fragments are stored: a voice
\* callback that leaves one fragment or none stored sends nothing (a state update with
\* a null channel id drops both fragments and sends nothing), and a callback that
\* leaves both stored sends exactly one voiceUpdate, carrying the two stored
\* fragments, to the session's current node
C11_VoiceUpdateOnlyWithBothFragments ==
    \A t \in Tasks :
        (/\ frames[t].op \in {"on_voice_server_update", "on_voice_state_update"}
         /\ frames[t].pc \in {"send", "done"})
        => /\ frames[t].op = "on_voice_server_update"
              => voice_state.event = frames[t].args.data
           /\ frames[t].op = "on_voice_state_update"
              => IF frames[t].args.channel_id = None
                 THEN voice_state = [sessionId |-> None, event |-> None]
                 ELSE voice_state.sessionId = frames[t].args.session_id
           /\ frames[t].log = IF BothFragments(voice_state)
                              THEN <<VoiceUpdatePayload(node, voice_state)>>
                              ELSE <<>>

C11_Witness ==
    \E t \in Tasks : /\ ReturnedOk(t, "on_voice_server_update")
                     /\ BothFragments(voice_state)
                     /\ frames[t].log = <<VoiceUpdatePayload(node, voice_state)>>

\* C12: each distinct (session id, event) pair is dispatched once to a node: a voice
\* callback that submits a fragment equal to the stored one, the pair being complete
\* and so already dispatched, sends no second voiceUpdate, while a callback that
\* changes a fragment of a pair that is then complete sends one voiceUpdate with the
\* updated pair
C12_OneDispatchPerPair ==
    [][\A t \in Tasks :
          (Calls(t, "on_voice_server_update") \/ Calls(t, "on_voice_state_update"))
          => frames'[t].log = IF BothFragments(voice_state') /\ voice_state' # voice_state
                              THEN <<VoiceUpdatePayload(node, voice_state')>>
                              ELSE <<>>]_vars

\* C13: on a connected session that has called play(t, start=0), after the clock has
\* advanced by d <= duration with no other call, position equals d; once set_pause(True)
\* has taken effect, position stays at the value it had however far the clock advances
C13_PositionFollowsClock ==
    [][(connected' /\ track' # None /\ \A t \in Tasks : frames'[t].pc = "idle")
       => /\ (~paused' /\ now' - EpochMs * Scale <= Duration(track'))
             => position' = now' - EpochMs * Scale
          /\ (paused /\ paused') => position' = position]_vars

\* C14: between two state reports, while the session stays connected with the same
\* track (no play, stop or terminal event: the track and the reported position and
\* its time of receipt are unchanged), position lies in [0, duration] and no step,
\* a set_pause(True) or set_pause(False) taking effect included, decreases it
C14_PositionMonotonic ==
    [][(/\ connected /\ connected'
        /\ track # None /\ track' = track
        /\ last_update' = last_update /\ last_position' = last_position)
       => /\ position' >= position
          /\ position' >= 0 /\ position' <= Duration(track')]_vars

\* C15: in every reachable state a non-null track is one whose play command the node
\* accepted; in particular a play call whose send failed does not leave its track set
C15_TrackOnlyIfPlayAccepted ==
    \A t \in Tasks :
        (Returned(t, "play") /\ frames[t].log # <<>> /\ frames[t].result # "ok")
        => track # frames[t].args.track

\* C16: after any stop() call track is null, whether the stop command was delivered
\* or the send raised, and whether or not a track was set before
C16_StopClearsTrack ==
    \A t \in Tasks : Returned(t, "stop") => track = None

\* C18: a terminal notification (end, exception, stuck) clears track only when it
\* concerns the current track: one for another track leaves track as it is, one that
\* arrives when track is null changes nothing, and paused and volume are unchanged
C18_TerminalEventForCurrentTrack ==
    [][\A t \in Tasks :
          (/\ Calls(t, "hook")
           /\ frames'[t].args.type \in {"TrackEnd", "TrackException", "TrackStuck"})
          => /\ track' = IF frames'[t].args.track = track THEN None ELSE track
             /\ UNCHANGED <<paused, volume>>]_vars

\* C17: in a change_node that returns successfully the commands are, in this order,
\* the destroy to the old node, then to the new node a voiceUpdate (sent if and only
\* if both handshake fragments are stored), a play (if track is non-null), a pause
\* (if track is non-null and the session is paused) and a volume (if volume # 100)
C17_ReplayOrder ==
    \A t \in Tasks :
        ReturnedOk(t, "change_node")
        => /\ Ops(frames[t].log) =
                 <<"destroy">>
                 \o (IF BothFragments(voice_state) THEN <<"voiceUpdate">> ELSE <<>>)
                 \o (IF track # None THEN <<"play">> ELSE <<>>)
                 \o (IF track # None /\ paused THEN <<"pause">> ELSE <<>>)
                 \o (IF volume # 100 THEN <<"volume">> ELSE <<>>)
           /\ frames[t].log[1].node = frames[t].old
           /\ \A i \in 2 .. Len(frames[t].log) :
                 frames[t].log[i].node = frames[t].target /\ frames[t].target = node

C17_Witness ==
    \E t \in Tasks :
        /\ ReturnedOk(t, "change_node")
        /\ Ops(frames[t].log) = <<"destroy", "voiceUpdate", "play", "pause", "volume">>

\* the pause commands of a log, oldest first
PauseCommands(log) == SelectSeq(log, LAMBDA c : c.op = "pause")

\* C19 as claimed: paused is the value of the last pause command sent to the current
\* node, false if there is none: it changes only when a set_pause's command is
\* delivered (to the value sent; a failed send leaves it), and once a change_node has
\* returned it is the value of the last pause it replayed on the new node, or false
C19_PausedMirrorsLastPauseCommand ==
    [][\A t \in Tasks :
          IF Suspended(t, "set_pause", "send") /\ frames'[t].pc = "done"
          THEN paused' = IF frames'[t].result = "ok" THEN frames[t].log[1].pause ELSE paused
          ELSE IF InFlight(t) /\ frames'[t].pc = "done"
                  /\ frames'[t].op = "change_node" /\ frames'[t].result = "ok"
          THEN paused' = IF PauseCommands(frames'[t].log) = <<>> THEN FALSE
                         ELSE PauseCommands(frames'[t].log)[
                                  Len(PauseCommands(frames'[t].log))].pause
          ELSE (frames'[t] # frames[t] \/ frames' = frames) => paused' = paused]_vars

\* C19: paused is the value of the last set_pause whose send succeeded, or false if
\* there is none or a play that took effect came after it: a delivered set_pause sets
\* it to the value sent, a failed one leaves it, a play that is not a no-op clears it
\* (sending no pause command), and every other step, those of stop, set_volume, seek
\* and change_node included, leaves it as it was
C19_PausedMirrorsSetPauseAndPlay ==
    [][\A t \in Tasks :
          IF Suspended(t, "set_pause", "send") /\ frames'[t].pc = "done"
          THEN paused' = IF frames'[t].result = "ok" THEN frames[t].log[1].pause ELSE paused
          ELSE IF Calls(t, "play") /\ frames'[t].log # <<>>
          THEN ~paused' /\ Ops(frames'[t].log) = <<"play">>
          ELSE (frames'[t] # frames[t] \/ frames' = frames) => paused' = paused]_vars

C19_Witness ==
    \E t \in Tasks : /\ Returned(t, "set_pause") /\ frames[t].result # "ok"
                     /\ ~frames[t].args.pause /\ paused

\* what a node holds for a session it has not been told about
NodeDefault == [track |-> None, paused |-> FALSE, volume |-> 100]

\* the effect of one command on what the node holds for the session
NodeApply(st, cmd) ==
    IF cmd.op = "play" THEN [st EXCEPT !.track = cmd.track]
    ELSE IF cmd.op = "pause" THEN [st EXCEPT !.paused = cmd.pause]
    ELSE IF cmd.op = "volume" THEN [st EXCEPT !.volume = cmd.volume]
    ELSE st

\* what node nd holds after the commands of log addressed to it, starting from st
RECURSIVE NodeAfter(_, _, _)
NodeAfter(st, nd, log) ==
    IF log = <<>> THEN st
    ELSE NodeAfter(IF Head(log).node = nd THEN NodeApply(st, Head(log)) ELSE st,
                   nd, Tail(log))

\* C20: after a successful change_node onto a node holding the default state, the
\* state the replayed commands produce on the new node matches the session: its
\* volume is the session's (a volume command is sent if and only if volume # 100 and
\* carries the session's volume), and if track is non-null the node plays that track
\* with the session's paused flag
C20_ReplayRefinesSession ==
    \A t \in Tasks :
        ReturnedOk(t, "change_node")
        => LET st == NodeAfter(NodeDefault, node, frames[t].log)
           IN /\ st.volume = volume
              /\ Count(frames[t].log, "volume") = IF volume # 100 THEN 1 ELSE 0
              /\ \A i \in 1 .. Len(frames[t].log) :
                    frames[t].log[i].op = "volume" => frames[t].log[i].volume = volume
              /\ track # None => st.track = track /\ st.paused = paused

C20_Witness ==
    \E t \in Tasks :
        /\ ReturnedOk(t, "change_node")
        /\ track # None /\ paused /\ volume # 100
        /\ NodeAfter(NodeDefault, node, frames[t].log) =
              [track |-> track, paused |-> TRUE, volume |-> volume]
====
